---- MODULE Spec2Model ----
(***************************************************************************)
(* The extraction pipeline of photo-maps: PhotoMetaExtractor as written in *)
(* plot/photo_meta_extractor.py, with the differences of the single-file   *)
(* variant plot/plot.py selected by `variant`.  One run is                 *)
(*   __init__ (load_existing_metadata) ; process_photos ; persist_metadata *)
(* and the model follows the run's threads: the pool's workers executing   *)
(* process_file and the main thread draining as_completed.                 *)
(***************************************************************************)
EXTENDS Integers, Sequences, FiniteSets, TLC

\* ------------------------------------------------------------------ bounds
NFiles == 2          \* directory entries
MaxRuns == 2         \* runs of the script in one behaviour
MaxEdits == 1        \* edits of source files between runs
MaxConc == 1         \* configured concurrency ranges over 0..MaxConc (0: not set)
CpuCount == 2        \* multiprocessing.cpu_count() of the machine
MaxDepth == 2        \* nesting depth of the EXIF tag values given to the normalization
MaxItems == 2        \* elements of a container among those values
MaxPhotos == 4       \* records in the list given to the clusterer
MaxCalls == 2        \* calls of the clusterer on one list

\* Python's None, and a result: <<>> is None, <<r>> holds the record r.
None == <<>>

Min(a, b) == IF a <= b THEN a ELSE b

\* ------------------------------------------------------- the input files
Files == 1..NFiles

\* What the bytes of a file are.  Each body is one concrete file content; the
\* operators below say what the libraries make of it.
\*   gps1, gps2 : decodable, EXIF with a complete GPS block, JSON-native values
\*   rational   : as gps1, with a tag value of another type (PIL's IFDRational)
\*   nolat      : decodable, EXIF with a GPSInfo that has no GPSLatitude
\*   nogps      : decodable, EXIF without a GPSInfo tag
\*   rgba       : as gps1, a PNG with an alpha channel: Pillow cannot write it
\*                as JPEG, so the save of its thumbnail raises OSError
\*   corrupt    : not decodable (Image.open raises)
\*   unreadable : open(path, "rb") raises
Bodies ==
  {"gps1", "gps2", "rational", "nolat", "nogps", "rgba", "corrupt", "unreadable"}

\* The directory entries a behaviour starts from: a name's extension and the
\* bytes under it.  (An edit can put any body under a name.)
Entries ==
  {[ext |-> "jpg", body |-> b] : b \in {"gps1", "rational", "corrupt", "unreadable"}}
    \cup {[ext |-> "JPG", body |-> "gps2"], [ext |-> "txt", body |-> "gps1"],
          [ext |-> "png", body |-> "rgba"]}

\* The body of a name whose file has been deleted: os.listdir does not list it.
Deleted == "deleted"

\* The entries of a directory that os.listdir returns.
Listed(d) == {f \in Files : d[f].body # Deleted}

\* The extensions a file can be renamed to.
Extensions == {"jpg", "JPG", "png", "txt"}

Readable(body) == body # "unreadable"
Decodable(body) == body \notin {"corrupt", "unreadable"}
HasGps(body) == body \in {"gps1", "gps2", "rational", "nolat", "rgba"}

\* A GPS block as the decoder hands it over: the degrees/minutes/seconds
\* triples under GPSLatitude and GPSLongitude (None: the key is missing) and
\* the reference strings ("absent": the key is missing).  "nanwei", "beiwei",
\* "xijing" and "dongjing" stand for the Chinese words for south latitude,
\* north latitude, west longitude and east longitude that some cameras write
\* (the two-character strings U+5357 U+7EAC, U+5317 U+7EAC, U+897F U+7ECF and
\* U+4E1C U+7ECF of the source).
GpsBlock(lat, latref, lon, lonref) ==
  [lat |-> lat, latref |-> latref, lon |-> lon, lonref |-> lonref]

EmptyBlock == GpsBlock(None, "absent", None, "absent")

\* The GPS block in the EXIF of a body.
GpsOf(body) ==
  CASE body = "gps1" -> GpsBlock(<<40, 30, 0>>, "N", <<74, 0, 0>>, "W")
    [] body = "gps2" -> GpsBlock(<<40, 30, 1>>, "N", <<74, 0, 0>>, "W")
    [] body = "nolat" -> GpsBlock(None, "absent", <<74, 0, 0>>, "W")
    [] body \in {"rational", "rgba"} ->
         GpsBlock(<<33, 45, 0>>, "S", <<151, 12, 0>>, "E")
    [] OTHER -> EmptyBlock

GpsComplete(body) == GpsOf(body).lat # None /\ GpsOf(body).lon # None
HasOtherType(body) == body = "rational"

\* An EXIF tag value as the decoder hands it over: its Python type and, for a
\* container, its elements (a dict's values; its keys are tag names).
\* "other" is any type json cannot encode and the normalization does not
\* name, such as PIL's IFDRational.
Leaf(t) == [t |-> t, items |-> <<>>]
Node(t, items) == [t |-> t, items |-> items]
LeafTypes == {"int", "str", "bytes", "other"}
ContainerTypes == {"tuple", "dict", "list"}

\* The tag value that the normalization of a body's EXIF has to deal with.
TagOf(body) ==
  IF HasOtherType(body) THEN Node("tuple", <<Leaf("other"), Leaf("int")>>)
  ELSE Node("tuple", <<Leaf("int"), Leaf("bytes")>>)
ThumbnailSaves(body) == body # "rgba"

Parsers == {"extractor", "plot", "map"}

\* convert_to_degrees: float(d) + float(m) / 60.0 + float(s) / 3600.0, kept
\* exact by counting in arc seconds (1/3600 degree).
convert_to_degrees(value) == value[1] * 3600 + value[2] * 60 + value[3]

\* The reference strings after which each parser negates the coordinate.
SouthRefs(p) == IF p = "map" THEN {"S"} ELSE {"S", "nanwei"}
WestRefs(p) == IF p = "map" THEN {"W"} ELSE {"W", "xijing"}

\* Whether the GPS part of the parser raises (and the caller's except returns
\* None): gps_info["GPSLatitude"] of a missing key is a KeyError; plot.py also
\* subscripts the two references; map.py falls back to [0, 0, 0], whose
\* elements its _convert_to_degrees cannot subscript (TypeError).
GpsRaises(p, g) ==
  \/ g.lat = None
  \/ g.lon = None
  \/ p = "plot" /\ (g.latref = "absent" \/ g.lonref = "absent")

\* gps_coordinates with a default of zero degrees for a missing component.
gps_coordinates_Default(p, g) ==
  LET lat == IF g.lat = None THEN <<0, 0, 0>> ELSE g.lat
      lon == IF g.lon = None THEN <<0, 0, 0>> ELSE g.lon
  IN <<IF g.latref \in SouthRefs(p)
       THEN -convert_to_degrees(lat) ELSE convert_to_degrees(lat),
       IF g.lonref \in WestRefs(p)
       THEN -convert_to_degrees(lon) ELSE convert_to_degrees(lon)>>

\* The coordinates part of extract_image_info / get_image_info: None, or
\* <<lat, lon>> in arc seconds.
gps_coordinates(p, g) ==
  IF GpsRaises(p, g) THEN None
  ELSE <<IF g.latref \in SouthRefs(p)
         THEN -convert_to_degrees(g.lat) ELSE convert_to_degrees(g.lat),
         IF g.lonref \in WestRefs(p)
         THEN -convert_to_degrees(g.lon) ELSE convert_to_degrees(g.lon)>>

file_types == {"jpg", "jpeg", "png"}

Lower(s) == IF s = "JPG" THEN "jpg" ELSE s

\* process_file's extension test: any(filename.lower().endswith("." + ext.lower()))
MatchesFileTypes(ext) == \E t \in file_types : Lower(ext) = Lower(t)

\* calculate_md5: the digest of the bytes, None when the file cannot be read.
calculate_md5(body) == IF Readable(body) THEN <<"md5", body>> ELSE None

Variants == {"extractor", "plot"}

VARIABLES
  variant,       \* which source file's PhotoMetaExtractor runs
  concurrency,   \* the configured concurrency (0: not configured)
  dir,           \* the source directory: entry -> [ext, body]
  metafile,      \* photos_metadata.json on disk: [state, data]
  thumbnails,    \* the entries whose thumb_<name> file is in thumbnail_dir
  pc,            \* where the script is
  run,           \* runs started so far
  edits,         \* edits of source files so far
  photos_data,   \* self.photos_data
  existing_md5,  \* self.existing_md5
  queue,         \* the executor's work queue (submitted, not started)
  task,          \* per directory entry: the future's state and result
  consumed,      \* futures as_completed has already yielded
  extracted,     \* entries extract_image_info was invoked on in this run
  returning,     \* entries whose extract_image_info is past create_thumbnail
  file0,         \* metafile as it was when the run started
  store0,        \* photos_data as loaded when the run started
  dir0,          \* the directory as the run listed it
  result,        \* what process_photos left in photos_data, once it has returned
  diedAt,        \* where the process died: a pc, "load" or "exception"
  lost,          \* records appended in this run that were in memory at the interruption
  prev           \* the previous run: how it ended and what it held

\* The location parser on its own: one call of the parsing part of
\* extract_image_info (plot.py's and map.py's get_image_info) on one EXIF block.
VARIABLES
  parser,        \* whose parser: photo_meta_extractor.py, plot.py or map.py
  exif_in,       \* the EXIF of the image: [kind, gps]
  thumb_in,      \* whether a JPEG thumbnail of the image can be written
  parsed,        \* the outcome of the call: [done, out]
  tag_in,        \* a tag value given to convert_exif_to_serializable
  normalized     \* the outcome of that call: [done, out]

parsevars == <<parser, exif_in, thumb_in, parsed, tag_in, normalized>>

pipevars == <<variant, concurrency, dir, metafile, thumbnails, pc, run, edits,
              photos_data, existing_md5, queue, task, consumed, extracted, returning,
              file0, store0, dir0, result, diedAt, lost, prev>>

\* The clusterer on its own: MapperPlotter with its record list, and the calls
\* of _group_nearby_photos on it.
VARIABLES
  plot_photos,   \* MapperPlotter.photos_data: the coordinates of each record
  max_distance,  \* the threshold the clusterer is called with, in metres
  grouped,       \* what each call so far has returned
  rendered       \* what create_map has put on the map: [done, drawn, groups,
                 \* markers, heat_data]

plotvars == <<plot_photos, max_distance, grouped, rendered>>

vars == <<pipevars, parsevars, plotvars>>

Absent == [state |-> "absent", data |-> <<>>]

NoTask == [st |-> "none", res |-> None]

NoResult == [reached |-> FALSE, out |-> <<>>]

NoPrev == [end |-> "none", dir |-> <<>>, store0 |-> <<>>, result |-> NoResult]

\* Md5Set that forgets the records.
Md5Set_Empty(recs) == {}

\* {item['md5'] for item in existing_data}
Md5Set(recs) == {recs[i].md5 : i \in 1..Len(recs)}

NoExif == [kind |-> "noexif", gps |-> EmptyBlock]

NotParsed == [done |-> FALSE, out |-> None]

NotNormalized == [done |-> FALSE, out |-> Leaf("int")]

\* No parser call is under way.
ParserIdle ==
  /\ parser = "extractor"
  /\ exif_in = NoExif
  /\ thumb_in = TRUE
  /\ parsed = NotParsed
  /\ tag_in = Leaf("int")
  /\ normalized = NotNormalized

PipelineInit ==
  /\ variant \in Variants
  /\ concurrency \in 0..MaxConc
  /\ dir \in [Files -> Entries]
  /\ metafile = Absent
  /\ thumbnails = {}
  /\ pc = "init"
  /\ run = 0
  /\ edits = 0
  /\ photos_data = <<>>
  /\ existing_md5 = {}
  /\ queue = <<>>
  /\ task = [f \in Files |-> NoTask]
  /\ consumed = {}
  /\ extracted = {}
  /\ returning = {}
  /\ file0 = Absent
  /\ store0 = <<>>
  /\ dir0 = dir
  /\ result = NoResult
  /\ diedAt = "none"
  /\ lost = 0
  /\ prev = NoPrev

\* mapper_plotter.py line 92: def _group_nearby_photos(self, max_distance=50)
DefaultMaxDistance == 50

NotRendered ==
  [done |-> FALSE, drawn |-> FALSE, groups |-> <<>>, markers |-> <<>>,
   heat_data |-> <<>>]

\* No plotter has been built.
PlotterIdle ==
  /\ plot_photos = <<>>
  /\ max_distance = DefaultMaxDistance
  /\ grouped = <<>>
  /\ rendered = NotRendered

Init == PipelineInit /\ ParserIdle /\ PlotterIdle


\* ------------------------------------------------------------ the program

\* convert_exif_to_serializable on a tag value.  Both versions go into dicts
\* and tuples and decode bytes to a str (decode('utf-8', 'ignore') does not
\* raise).  A value of any other type is returned as it is by
\* photo_meta_extractor.py; plot.py keeps int, float and str and turns every
\* other value, a list too, into its str().
RECURSIVE convert_exif_to_serializable(_, _)
convert_exif_to_serializable(v, x) ==
  IF x.t \in {"dict", "tuple"}
  THEN Node(x.t, [i \in 1..Len(x.items) |->
                   convert_exif_to_serializable(v, x.items[i])])
  ELSE IF x.t = "bytes" THEN Leaf("str")
  ELSE IF v = "plot" /\ x.t \notin {"int", "str"} THEN Leaf("str")
  ELSE x

\* Whether json.dump encodes the value: numbers and strings, and lists,
\* tuples and dicts of encodable values.
RECURSIVE Serializable(_)
Serializable(x) ==
  IF x.t \in ContainerTypes
  THEN \A i \in 1..Len(x.items) : Serializable(x.items[i])
  ELSE x.t \in {"int", "str"}

\* create_thumbnail: the thumbnail files after the call.  A save that raises is
\* caught and logged inside, and the caller is not told.
create_thumbnail(body, f, thumbs) ==
  IF ThumbnailSaves(body) THEN thumbs \cup {f} ELSE thumbs

\* extract_image_info (get_image_info in plot.py): the record of a file, or None.
\* Every exception is caught inside and gives None: the decoder's, and the
\* KeyError of gps_info["GPSLatitude"].
extract_image_info(v, f, entry, md5_hash) ==
  IF ~Decodable(entry.body) THEN None
  ELSE IF ~HasGps(entry.body) THEN None
  ELSE IF gps_coordinates(v, GpsOf(entry.body)) = None THEN None
  ELSE <<[filename |-> <<f, entry.ext>>,
          coordinates |-> gps_coordinates(v, GpsOf(entry.body)),
          thumbnail |-> <<"thumb", f, entry.ext>>,
          exif |-> convert_exif_to_serializable(v, TagOf(entry.body)),
          md5 |-> md5_hash]>>

\* Escapes with an except clause that misses the decoder's error and the
\* KeyError of an incomplete GPS block.
Escapes_Undecodable(entry) ==
  ~Decodable(entry.body) \/ (HasGps(entry.body) /\ ~GpsComplete(entry.body))

\* The exceptions that leave process_file: calculate_md5 and extract_image_info
\* both catch Exception around everything that can raise, so none does.
Escapes(entry) == FALSE

\* ReachesExtraction without the test of the hash set.
ReachesExtraction_NoSkip(entry, seen) ==
  /\ MatchesFileTypes(entry.ext)
  /\ calculate_md5(entry.body) # None

\* Whether process_file gets as far as extract_image_info, given the hash set
\* it reads at that moment.
ReachesExtraction(entry, seen) ==
  /\ MatchesFileTypes(entry.ext)
  /\ calculate_md5(entry.body) # None
  /\ calculate_md5(entry.body) \notin seen

\* process_file: what the worker returns.
process_file(v, f, entry, seen) ==
  IF ReachesExtraction(entry, seen)
  THEN extract_image_info(v, f, entry, calculate_md5(entry.body))
  ELSE None

\* max_workers of the pool: self.concurrency in photo_meta_extractor.py
\* (cpu_count() when not configured); plot.py builds ThreadPoolExecutor() and
\* gets the library default min(32, cpu_count + 4).
EffectiveConcurrency == IF concurrency # 0 THEN concurrency ELSE CpuCount

MaxWorkers(v) ==
  IF v = "extractor" THEN EffectiveConcurrency ELSE Min(32, CpuCount + 4)

Running == {f \in Files : task[f].st = "running"}

\* json.dump: a record whose EXIF still holds a value of another type raises
\* TypeError; what was encoded before it is already in the file.
Dumpable(rec) == Serializable(rec.exif)

RECURSIVE DumpablePrefix(_)
DumpablePrefix(recs) ==
  IF recs = <<>> \/ ~Dumpable(Head(recs)) THEN <<>>
  ELSE <<Head(recs)>> \o DumpablePrefix(Tail(recs))

\* load_existing_metadata on the file as it is: <<photos_data, existing_md5, ok>>.
\* A file that does not parse is caught in photo_meta_extractor.py and escapes
\* from plot.py's constructor.
load_existing_metadata(v, mf) ==
  CASE mf.state = "absent" -> [data |-> <<>>, ok |-> TRUE]
    [] mf.state = "valid" -> [data |-> mf.data, ok |-> TRUE]
    [] OTHER -> [data |-> <<>>, ok |-> v = "extractor"]

Between == {"init", "done", "dead"}
Alive == {"loaded", "pool", "persist", "writing"}

\* The script starts: __init__ and its load_existing_metadata.
Construct ==
  /\ pc \in Between
  /\ run < MaxRuns
  /\ run' = run + 1
  /\ prev' = [end |-> pc, dir |-> dir0, store0 |-> store0, result |-> result]
  /\ result' = NoResult
  /\ lost' = 0
  /\ LET l == load_existing_metadata(variant, metafile) IN
       /\ photos_data' = l.data
       /\ existing_md5' = Md5Set(l.data)
       /\ store0' = l.data
       /\ pc' = IF l.ok THEN "loaded" ELSE "dead"
       /\ diedAt' = IF l.ok THEN "none" ELSE "load"
  /\ file0' = metafile
  /\ dir0' = dir
  /\ queue' = <<>>
  /\ task' = [f \in Files |-> NoTask]
  /\ consumed' = {}
  /\ extracted' = {}
  /\ returning' = {}
  /\ UNCHANGED <<variant, concurrency, dir, metafile, thumbnails, edits>>
  /\ UNCHANGED <<parsevars, plotvars>>

\* The entries of the listing that executor.submit has been called on.
Submitted == {f \in Files : task[f].st # "none"}

\* One turn of the dict comprehension of process_photos: executor.submit puts
\* the next entry of the listing on the work queue.  os.listdir returns the
\* entries in an order of its own, which nothing fixes from one run to the
\* next: any entry not yet submitted can be the next one.
Submit(f) ==
  /\ pc = "loaded"
  /\ f \in Listed(dir)
  /\ f \notin Submitted
  /\ queue' = Append(queue, f)
  /\ task' = [task EXCEPT ![f] = [st |-> "queued", res |-> None]]
  /\ UNCHANGED <<variant, concurrency, dir, metafile, thumbnails, pc, run, edits, photos_data,
                 existing_md5, consumed, extracted, returning, file0, store0, dir0, result, diedAt, lost, prev>>
  /\ UNCHANGED <<parsevars, plotvars>>

\* The comprehension ends, every entry submitted: the main thread enters the
\* as_completed loop.
SubmitEnd ==
  /\ pc = "loaded"
  /\ Submitted = Listed(dir)
  /\ pc' = "pool"
  /\ UNCHANGED <<variant, concurrency, dir, metafile, thumbnails, run, edits, photos_data,
                 existing_md5, queue, task, consumed, extracted, returning, file0, store0, dir0,
                 result, diedAt, lost, prev>>
  /\ UNCHANGED <<parsevars, plotvars>>

\* A free worker takes the next work item; the workers run from the first
\* submit on, while the main thread is still submitting.
TaskStart ==
  /\ pc \in {"loaded", "pool"}
  /\ queue # <<>>
  /\ Cardinality(Running) < MaxWorkers(variant)
  /\ task' = [task EXCEPT ![Head(queue)].st = "running"]
  /\ queue' = Tail(queue)
  /\ UNCHANGED <<variant, concurrency, dir, metafile, thumbnails, pc, run, edits, photos_data,
                 existing_md5, consumed, extracted, returning, file0, store0, dir0, result, diedAt, lost, prev>>
  /\ UNCHANGED <<parsevars, plotvars>>

\* The worker runs process_file up to its call of extract_image_info: the
\* extension test, the digest and the test of existing_md5 as it is now.  A
\* file that does not pass ends the task with None.
TaskHashTest(f) ==
  /\ pc \in {"loaded", "pool"}
  /\ task[f].st = "running"
  /\ f \notin extracted
  /\ IF ReachesExtraction(dir[f], existing_md5)
     THEN extracted' = extracted \cup {f} /\ UNCHANGED task
     ELSE task' = [task EXCEPT ![f] = [st |-> "done", res |-> None]]
          /\ UNCHANGED extracted
  /\ UNCHANGED <<variant, concurrency, dir, metafile, thumbnails, pc, run, edits, photos_data,
                 existing_md5, queue, consumed, returning, file0, store0, dir0, result,
                 diedAt, lost, prev>>
  /\ UNCHANGED <<parsevars, plotvars>>

\* The worker runs extract_image_info with the digest it computed, up to the
\* return of create_thumbnail: the thumbnail file is written (when the
\* function gets that far and the save succeeds).
TaskExtract(f) ==
  /\ pc \in {"loaded", "pool"}
  /\ task[f].st = "running"
  /\ f \in extracted
  /\ f \notin returning
  /\ returning' = returning \cup {f}
  /\ thumbnails' =
       IF extract_image_info(variant, f, dir[f], calculate_md5(dir[f].body)) # None
       THEN create_thumbnail(dir[f].body, f, thumbnails)
       ELSE thumbnails
  /\ UNCHANGED <<variant, concurrency, dir, metafile, pc, run, edits, photos_data,
                 existing_md5, queue, task, consumed, extracted, file0, store0, dir0, result,
                 diedAt, lost, prev>>
  /\ UNCHANGED <<parsevars, plotvars>>

\* extract_image_info and process_file return, and the executor completes
\* the future with what process_file returned.
TaskReturn(f) ==
  /\ pc \in {"loaded", "pool"}
  /\ task[f].st = "running"
  /\ f \in returning
  /\ task' = [task EXCEPT ![f] =
                IF Escapes(dir[f]) THEN [st |-> "failed", res |-> None]
                ELSE [st |-> "done",
                      res |-> extract_image_info(variant, f, dir[f],
                                                 calculate_md5(dir[f].body))]]
  /\ UNCHANGED <<variant, concurrency, dir, metafile, thumbnails, pc, run, edits,
                 photos_data, existing_md5, queue, consumed, extracted, returning, file0,
                 store0, dir0, result, diedAt, lost, prev>>
  /\ UNCHANGED <<parsevars, plotvars>>

\* The process ends at once: what it held in memory is gone.
Dies(at) ==
  /\ pc' = "dead"
  /\ diedAt' = at
  /\ lost' = Len(photos_data) - Len(store0)
  /\ photos_data' = <<>>
  /\ existing_md5' = {}
  /\ queue' = <<>>
  /\ task' = [f \in Files |-> NoTask]
  /\ consumed' = {}
  /\ extracted' = {}
  /\ returning' = {}

\* Aggregate with the store written to the file after every appended record.
Aggregate_WriteThrough(f) ==
  /\ pc = "pool"
  /\ task[f].st \in {"done", "failed"}
  /\ f \notin consumed
  /\ IF task[f].st = "failed"
     THEN Dies("exception") /\ UNCHANGED metafile
     ELSE /\ consumed' = consumed \cup {f}
          /\ photos_data' = IF task[f].res # None
                            THEN photos_data \o task[f].res ELSE photos_data
          /\ existing_md5' = IF task[f].res # None
                             THEN existing_md5 \cup {task[f].res[1].md5} ELSE existing_md5
          /\ metafile' = IF task[f].res # None
                         THEN [state |-> "valid", data |-> photos_data \o task[f].res]
                         ELSE metafile
          /\ UNCHANGED <<pc, diedAt, lost, queue, task, extracted, returning>>
  /\ UNCHANGED <<variant, concurrency, dir, thumbnails, run, edits, file0, store0,
                 dir0, result, prev>>
  /\ UNCHANGED <<parsevars, plotvars>>

\* Aggregate that updates the record of the same file name where there is one.
Aggregate_UpdateByName(f) ==
  /\ pc = "pool"
  /\ task[f].st \in {"done", "failed"}
  /\ f \notin consumed
  /\ IF task[f].st = "failed"
     THEN Dies("exception")
     ELSE /\ consumed' = consumed \cup {f}
          /\ photos_data' =
               IF task[f].res = None THEN photos_data
               ELSE IF \E i \in 1..Len(photos_data) :
                         photos_data[i].filename = task[f].res[1].filename
               THEN [i \in 1..Len(photos_data) |->
                       IF photos_data[i].filename = task[f].res[1].filename
                       THEN task[f].res[1] ELSE photos_data[i]]
               ELSE photos_data \o task[f].res
          /\ existing_md5' = IF task[f].res # None
                             THEN existing_md5 \cup {task[f].res[1].md5} ELSE existing_md5
          /\ UNCHANGED <<pc, diedAt, lost, queue, task, extracted, returning>>
  /\ UNCHANGED <<variant, concurrency, dir, metafile, thumbnails, run, edits, file0, store0,
                 dir0, result, prev>>
  /\ UNCHANGED <<parsevars, plotvars>>

\* One turn of the as_completed loop in the main thread: a completed future
\* is taken, and its result, if any, appended.  future.result() raises again
\* what the worker raised, which nothing in process_photos catches.
Aggregate(f) ==
  /\ pc = "pool"
  /\ task[f].st \in {"done", "failed"}
  /\ f \notin consumed
  /\ IF task[f].st = "failed"
     THEN Dies("exception")
     ELSE /\ consumed' = consumed \cup {f}
          /\ photos_data' = IF task[f].res # None
                            THEN photos_data \o task[f].res ELSE photos_data
          /\ existing_md5' = IF task[f].res # None
                             THEN existing_md5 \cup {task[f].res[1].md5} ELSE existing_md5
          /\ UNCHANGED <<pc, diedAt, lost, queue, task, extracted, returning>>
  /\ UNCHANGED <<variant, concurrency, dir, metafile, thumbnails, run, edits, file0, store0,
                 dir0, result, prev>>
  /\ UNCHANGED <<parsevars, plotvars>>

\* ProcessPhotosEnd that leaves the loop after the first future.
ProcessPhotosEnd_Early ==
  /\ pc = "pool"
  /\ consumed # {}
  /\ pc' = "persist"
  /\ result' = [reached |-> TRUE, out |-> photos_data]
  /\ UNCHANGED <<variant, concurrency, dir, metafile, thumbnails, run, edits, photos_data,
                 existing_md5, queue, task, consumed, extracted, returning, file0, store0,
                 dir0, diedAt, lost, prev>>
  /\ UNCHANGED <<parsevars, plotvars>>

\* Every future has been yielded: the loop and the with block end.
ProcessPhotosEnd ==
  /\ pc = "pool"
  /\ consumed = Listed(dir)
  /\ pc' = "persist"
  /\ result' = [reached |-> TRUE, out |-> photos_data]
  /\ UNCHANGED <<variant, concurrency, dir, metafile, thumbnails, run, edits, photos_data,
                 existing_md5, queue, task, consumed, extracted, returning, file0, store0,
                 dir0, diedAt, lost, prev>>
  /\ UNCHANGED <<parsevars, plotvars>>

\* persist_metadata, open(self.metadata_file, 'w'): the file is truncated.
PersistOpen ==
  /\ pc = "persist"
  /\ pc' = "writing"
  /\ metafile' = [state |-> "partial", data |-> <<>>]
  /\ UNCHANGED <<variant, concurrency, dir, thumbnails, run, edits, photos_data,
                 existing_md5, queue, task, consumed, extracted, returning, file0, store0,
                 dir0, result, diedAt, lost, prev>>
  /\ UNCHANGED <<parsevars, plotvars>>

\* persist_metadata, inside json.dump: the encoder's output reaches the file
\* in portions, and one more record is in the file.
PersistWrite ==
  /\ pc = "writing"
  /\ Len(metafile.data) < Len(photos_data)
  /\ Dumpable(photos_data[Len(metafile.data) + 1])
  /\ metafile' = [state |-> "partial",
                  data |-> SubSeq(photos_data, 1, Len(metafile.data) + 1)]
  /\ UNCHANGED <<variant, concurrency, dir, thumbnails, pc, run, edits, photos_data,
                 existing_md5, queue, task, consumed, extracted, returning, file0, store0,
                 dir0, result, diedAt, lost, prev>>
  /\ UNCHANGED <<parsevars, plotvars>>

\* persist_metadata, the rest of json.dump and the close of the file; a
\* TypeError is caught and logged, and the script goes on.
PersistDump ==
  /\ pc = "writing"
  /\ pc' = "done"
  /\ metafile' = IF \A i \in 1..Len(photos_data) : Dumpable(photos_data[i])
                 THEN [state |-> "valid", data |-> photos_data]
                 ELSE [state |-> "partial", data |-> DumpablePrefix(photos_data)]
  /\ UNCHANGED <<variant, concurrency, dir, thumbnails, run, edits, photos_data,
                 existing_md5, queue, task, consumed, extracted, returning, file0, store0,
                 dir0, result, diedAt, lost, prev>>
  /\ UNCHANGED <<parsevars, plotvars>>

\* The process is interrupted (killed, power loss) while it runs.
Crash ==
  /\ pc \in Alive
  /\ Dies(pc)
  /\ UNCHANGED <<variant, concurrency, dir, metafile, thumbnails, run, edits, file0, store0,
                 dir0, result, prev>>
  /\ UNCHANGED <<parsevars, plotvars>>

\* Between two runs somebody changes the bytes of one source file.
ModifyFile(f, b) ==
  /\ pc \in {"done", "dead"}
  /\ run < MaxRuns
  /\ edits < MaxEdits
  /\ b # dir[f].body
  /\ dir' = [dir EXCEPT ![f].body = b]
  /\ edits' = edits + 1
  /\ UNCHANGED <<variant, concurrency, metafile, thumbnails, pc, run, photos_data,
                 existing_md5, queue, task, consumed, extracted, returning, file0, store0,
                 dir0, result, diedAt, lost, prev>>
  /\ UNCHANGED <<parsevars, plotvars>>

\* Between two runs somebody deletes one source file.
DeleteFile(f) ==
  /\ pc \in {"done", "dead"}
  /\ run < MaxRuns
  /\ edits < MaxEdits
  /\ dir[f].body # Deleted
  /\ dir' = [dir EXCEPT ![f].body = Deleted]
  /\ edits' = edits + 1
  /\ UNCHANGED <<variant, concurrency, metafile, thumbnails, pc, run, photos_data,
                 existing_md5, queue, task, consumed, extracted, returning, file0, store0,
                 dir0, result, diedAt, lost, prev>>
  /\ UNCHANGED <<parsevars, plotvars>>

\* Between two runs somebody renames one source file (its bytes stay).
RenameFile(f, e) ==
  /\ pc \in {"done", "dead"}
  /\ run < MaxRuns
  /\ edits < MaxEdits
  /\ dir[f].body # Deleted
  /\ e # dir[f].ext
  /\ dir' = [dir EXCEPT ![f].ext = e]
  /\ edits' = edits + 1
  /\ UNCHANGED <<variant, concurrency, metafile, thumbnails, pc, run, photos_data,
                 existing_md5, queue, task, consumed, extracted, returning, file0, store0,
                 dir0, result, diedAt, lost, prev>>
  /\ UNCHANGED <<parsevars, plotvars>>

Next ==
  \/ Construct
  \/ \E f \in Files : Submit(f)
  \/ SubmitEnd
  \/ TaskStart
  \/ \E f \in Files : TaskHashTest(f)
  \/ \E f \in Files : TaskExtract(f)
  \/ \E f \in Files : TaskReturn(f)
  \/ \E f \in Files : Aggregate(f)
  \/ ProcessPhotosEnd
  \/ PersistOpen
  \/ PersistWrite
  \/ PersistDump
  \/ Crash
  \/ \E f \in Files, b \in Bodies : ModifyFile(f, b)
  \/ \E f \in Files : DeleteFile(f)
  \/ \E f \in Files, e \in Extensions : RenameFile(f, e)

Spec == Init /\ [][Next]_vars

\* The scheduling of one run: the main thread goes on to submit the entries
\* and to leave the loop once every future has been yielded, a free worker
\* takes the next work item, a started task goes on to its end (the claim's
\* proviso), and as_completed yields every completed future.  Nothing is promised about
\* the script being started again, about edits, or about interruptions.
\* The behaviours start from the directories made of four of the entries: a
\* file that gives a record, another one, one that does not decode and one
\* that is no candidate.
FairEntries ==
  {[ext |-> "jpg", body |-> "gps1"], [ext |-> "JPG", body |-> "gps2"],
   [ext |-> "jpg", body |-> "corrupt"], [ext |-> "txt", body |-> "gps1"]}

FairInit == Init /\ dir \in [Files -> FairEntries]

FairSpec ==
  /\ FairInit
  /\ [][Next]_vars
  /\ WF_vars(\E f \in Files : Submit(f))
  /\ WF_vars(SubmitEnd)
  /\ WF_vars(TaskStart)
  /\ \A f \in Files : WF_vars(TaskHashTest(f))
  /\ \A f \in Files : WF_vars(TaskExtract(f))
  /\ \A f \in Files : WF_vars(TaskReturn(f))
  /\ \A f \in Files : WF_vars(Aggregate(f))
  /\ WF_vars(ProcessPhotosEnd)


\* ------------------------------------------------- the location parser alone

\* The inputs of the parser: degrees, minutes and seconds as the file holds
\* them (nothing in an EXIF block keeps them in range), and the references.
DegreesIn == {0, 40, 90, 91, 180, 181}
MinutesIn == {0, 30, 60}
SecondsIn == {0, 59}
Triples == {<<d, m, s>> : d \in DegreesIn, m \in MinutesIn, s \in SecondsIn}
LatRefs == {"N", "S", "nanwei", "beiwei", "absent"}
LonRefs == {"E", "W", "xijing", "dongjing", "absent"}

GpsBlocks ==
  {GpsBlock(lat, latref, lon, lonref) :
     lat \in Triples \cup {None}, latref \in LatRefs,
     lon \in Triples \cup {None}, lonref \in LonRefs}

ExifInputs ==
  {NoExif, [kind |-> "nogps", gps |-> EmptyBlock]}
    \cup {[kind |-> "gps", gps |-> g] : g \in GpsBlocks}

\* The location of an image as the parser p finds it: None (no record) or the
\* coordinates of the record.  No EXIF and no GPSInfo tag return None at once
\* (map.py: a GPSInfo without entries too); an exception in the GPS part is
\* caught at the end of the function, which returns None.
parse_location(p, e) ==
  IF e.kind # "gps" THEN None
  ELSE IF p = "map" /\ e.gps = EmptyBlock THEN None
  ELSE gps_coordinates(p, e.gps)

\* The pipeline is not running.
PipelineIdle ==
  /\ PipelineInit
  /\ variant = "extractor"
  /\ concurrency = 0
  /\ dir = [f \in Files |-> [ext |-> "txt", body |-> "gps1"]]

ParseInit ==
  /\ PipelineIdle
  /\ parser \in Parsers
  /\ exif_in \in ExifInputs
  /\ thumb_in \in BOOLEAN
  /\ parsed = NotParsed
  /\ tag_in = Leaf("int")
  /\ normalized = NotNormalized
  /\ PlotterIdle

\* The directory entry the parser is called on: the first one.
ParsedFile == CHOOSE f \in Files : \A g \in Files : f <= g

\* What the parser p returns for an image: None, or the coordinates of the
\* record.  Once the location is there each parser writes the thumbnail;
\* photo_meta_extractor.py and plot.py catch a failing save inside
\* create_thumbnail and go on, map.py's _create_thumbnail does not, and the
\* except clause at the end of its get_image_info returns None.
parse_image(p, e, saves) ==
  IF parse_location(p, e) = None THEN None
  ELSE IF p = "map" /\ ~saves THEN None
  ELSE parse_location(p, e)

\* The thumbnail files after the parser has run on entry f: the thumbnail is
\* written when the location was found and the save succeeds.
parse_thumbnails(p, e, saves, f, thumbs) ==
  IF parse_location(p, e) # None /\ saves THEN thumbs \cup {f} ELSE thumbs

\* The parser is called on the image.
Parse ==
  /\ ~parsed.done
  /\ parsed' = [done |-> TRUE, out |-> parse_image(parser, exif_in, thumb_in)]
  /\ thumbnails' = parse_thumbnails(parser, exif_in, thumb_in, ParsedFile, thumbnails)
  /\ UNCHANGED <<parser, exif_in, thumb_in, tag_in, normalized>>
  /\ UNCHANGED <<variant, concurrency, dir, metafile, pc, run, edits, photos_data,
                 existing_md5, queue, task, consumed, extracted, returning, file0, store0,
                 dir0, result, diedAt, lost, prev>>
  /\ UNCHANGED plotvars

ParseNext == Parse

ParseSpec == ParseInit /\ [][ParseNext]_vars


\* ------------------------------------------------ the EXIF normalization alone

SeqsUpTo(n, S) == UNION {[1..k -> S] : k \in 0..n}

\* The tag values of nesting depth at most n.
RECURSIVE ValuesUpTo(_)
ValuesUpTo(n) ==
  {Leaf(t) : t \in LeafTypes}
    \cup (IF n = 0 THEN {}
         ELSE {Node(t, items) :
                 t \in ContainerTypes, items \in SeqsUpTo(MaxItems, ValuesUpTo(n - 1))})

NormalizeInit ==
  /\ PipelineIdle
  /\ parser \in Variants
  /\ exif_in = NoExif
  /\ thumb_in = TRUE
  /\ parsed = NotParsed
  /\ tag_in \in ValuesUpTo(MaxDepth)
  /\ normalized = NotNormalized
  /\ PlotterIdle

\* The parser normalizes the tag value for the record.
Normalize ==
  /\ ~normalized.done
  /\ normalized' = [done |-> TRUE,
                    out |-> convert_exif_to_serializable(parser, tag_in)]
  /\ UNCHANGED <<parser, exif_in, thumb_in, parsed, tag_in>>
  /\ UNCHANGED <<pipevars, plotvars>>

NormalizeNext == Normalize

NormalizeSpec == NormalizeInit /\ [][NormalizeNext]_vars


\* ------------------------------------------------------ the clusterer alone

\* Distance that keeps the sign of the difference.
Distance_Signed(a, b) == a - b

\* The records lie on one meridian and a coordinate counts the metres along
\* it: there the haversine formula of lines 114-119 gives the length of the
\* arc between the two records, the difference of their coordinates.
Distance(a, b) == IF a >= b THEN a - b ELSE b - a

Positions == {0, 40, 50, 51, 80, 90, 120, 200}

\* Six records, each 40 m from the next, 200 m from end to end.
Chain == <<0, 40, 80, 120, 160, 200>>

Thresholds == {45, DefaultMaxDistance}

\* Skipped that skips nothing.
Skipped_Never(j, processed) == FALSE

\* Line 108: if j in processed: continue
Skipped(j, processed) == j \in processed

\* Near with the comparison turned round.
Near_Reversed(distance, max) == distance >= max

\* Near with < for <=.
Near_Strict(distance, max) == distance < max

\* Line 121: if distance <= max_distance
Near(distance, max) == distance <= max

\* Origin that measures from the record appended last.
Origin_LastMember(photos, i, current_group) ==
  photos[current_group[Len(current_group)]]

\* Line 105: lat1, lon1 = photo1['coordinates'], the point every distance of
\* the inner loop is taken from.
Origin(photos, i, current_group) == photos[i]

\* GroupKey that uses the seed's index.
GroupKey_SeedIndex(groups, i) == i

\* Line 125: groups[len(groups)]
GroupKey(groups, i) == Cardinality(DOMAIN groups)

\* The inner loop (lines 107-123) of the seed i from record j on: the group
\* and the processed set it ends with.  Records stand for themselves by
\* their place in the list, counted from 1.
RECURSIVE InnerLoop(_, _, _, _, _)
InnerLoop(photos, max, i, j, st) ==
  IF j > Len(photos) THEN st
  ELSE IF Skipped(j, st.processed) THEN InnerLoop(photos, max, i, j + 1, st)
  ELSE IF Near(Distance(Origin(photos, i, st.current_group), photos[j]), max)
  THEN InnerLoop(photos, max, i, j + 1,
                 [current_group |-> Append(st.current_group, j),
                  processed |-> st.processed \cup {j}])
  ELSE InnerLoop(photos, max, i, j + 1, st)

\* The outer loop (lines 97-125) from record i on.
RECURSIVE OuterLoop(_, _, _, _, _)
OuterLoop(photos, max, i, processed, groups) ==
  IF i > Len(photos) THEN groups
  ELSE IF i \in processed THEN OuterLoop(photos, max, i + 1, processed, groups)
  ELSE LET st == InnerLoop(photos, max, i, 1,
                           [current_group |-> <<i>>,
                            processed |-> processed \cup {i}])
       IN OuterLoop(photos, max, i + 1, st.processed,
                    groups @@ (GroupKey(groups, i) :> st.current_group))

\* _group_nearby_photos: the groups, a mapping from the keys to the lists of
\* records.
group_nearby_photos(photos, max) == OuterLoop(photos, max, 1, {}, <<>>)

ClusterInit ==
  /\ PipelineIdle
  /\ ParserIdle
  /\ plot_photos \in SeqsUpTo(MaxPhotos, Positions) \cup {Chain}
  /\ max_distance \in Thresholds
  /\ grouped = <<>>
  /\ rendered = NotRendered

\* create_map (or another caller) calls the clusterer on the record list.
Group ==
  /\ Len(grouped) < MaxCalls
  /\ grouped' = Append(grouped, group_nearby_photos(plot_photos, max_distance))
  /\ UNCHANGED <<plot_photos, max_distance, rendered>>
  /\ UNCHANGED <<pipevars, parsevars>>

\* Representative that takes the record appended last.
Representative_Last(group) == group[Len(group)]

\* Line 158: location = group[0]['coordinates'], of the record group[0].
Representative(group) == group[1]

\* Line 164: color = 'red' if len(group) == 1 else 'blue'
MarkerColor(group) == IF Len(group) = 1 THEN "red" ELSE "blue"

\* create_map as far as the groups go: nothing is drawn for an empty record
\* list; otherwise the clusterer is called with its default threshold and
\* each group, in the order of the mapping, gives a marker at its
\* representative's coordinates and an entry [lat, lon, len(group)] of the
\* heat map.
create_map(photos) ==
  IF photos = <<>>
  THEN [done |-> TRUE, drawn |-> FALSE, groups |-> <<>>, markers |-> <<>>,
        heat_data |-> <<>>]
  ELSE LET photo_groups == group_nearby_photos(photos, DefaultMaxDistance)
           n == Cardinality(DOMAIN photo_groups)
       IN [done |-> TRUE,
           drawn |-> TRUE,
           groups |-> photo_groups,
           markers |-> [k \in 1..n |->
                         [location |-> photos[Representative(photo_groups[k - 1])],
                          color |-> MarkerColor(photo_groups[k - 1])]],
           heat_data |-> [k \in 1..n |->
                           <<photos[Representative(photo_groups[k - 1])],
                             Len(photo_groups[k - 1])>>]]

\* The script draws the map.
CreateMap ==
  /\ ~rendered.done
  /\ rendered' = create_map(plot_photos)
  /\ UNCHANGED <<plot_photos, max_distance, grouped>>
  /\ UNCHANGED <<pipevars, parsevars>>

ClusterNext == Group \/ CreateMap

ClusterSpec == ClusterInit /\ [][ClusterNext]_vars


\* ------------------------------------------------------------- the claims

Recs(recs) == {recs[i] : i \in 1..Len(recs)}

\* This run follows a complete run (load, process_photos, persist_metadata).
AfterCompleteRun == prev.end = "done"

\* C1: no two records of photos_data carry the same md5, in every reachable
\* state, also when two files of identical bytes are processed in one run.
C1_DigestUnique ==
  \A i, j \in 1..Len(photos_data) :
    i # j => photos_data[i].md5 # photos_data[j].md5

\* C6: the metadata file always holds the complete prior record list or the
\* complete new one: it is what it was when the run started, or the whole of
\* photos_data.
C6_AtomicPersist ==
  \/ metafile = file0
  \/ /\ metafile.state = "valid"
     /\ result.reached
     /\ metafile.data = result.out

\* C7: what process_file returned for a file depends on the file and the
\* incoming store alone, under every interleaving of workers and aggregation.
C7_WorkerOutcomeFixed ==
  \A f \in Files :
    task[f].st = "done" =>
      task[f].res = process_file(variant, f, dir[f], Md5Set(store0))

\* C8: two executions of process_photos on the same directory content and the
\* same incoming store leave the same record list, in the same order.
C8_DeterministicOrder ==
  (result.reached /\ prev.result.reached /\ prev.dir = dir0 /\ prev.store0 = store0)
    => result.out = prev.result.out

\* C9: the number of per-file tasks executing at the same moment is at most
\* the configured concurrency (the machine's parallelism when none is set).
C9_ConcurrencyBound == Cardinality(Running) <= EffectiveConcurrency


\* The name process_file gives the record of entry f.
NameOf(f) == <<f, dir0[f].ext>>

\* The records this run has appended to the loaded ones.
Appended == SubSeq(photos_data, Len(store0) + 1, Len(photos_data))

\* C2: a second complete run on an unchanged directory appends nothing, and
\* the record list after it is the one after the first run.
C2_Idempotent ==
  (pc = "done" /\ AfterCompleteRun /\ prev.dir = dir0)
    => /\ Len(photos_data) = Len(store0)
       /\ photos_data = prev.result.out

\* C3 (as claimed): in a run that follows a complete run on an unchanged
\* directory, extract_image_info is invoked on no file at all.
C3_ZeroExtraction ==
  (AfterCompleteRun /\ prev.dir = dir0) => extracted = {}

\* C3 (amended): a run never invokes extract_image_info on a file whose digest
\* is in the store it loaded; a candidate file whose digest is in no record
\* (it produced none in the first run) is extracted again.
C3_SkipsExactlyKnown ==
  \A f \in Files :
    /\ f \in extracted => calculate_md5(dir0[f].body) \notin Md5Set(store0)
    /\ ( /\ task[f].st = "done"
         /\ MatchesFileTypes(dir0[f].ext)
         /\ calculate_md5(dir0[f].body) # None
         /\ calculate_md5(dir0[f].body) \notin existing_md5 ) => f \in extracted

\* A second run on the unchanged directory has skipped a file of the loaded
\* store and extracted again a file that gave no record.
C3_Witness ==
  /\ AfterCompleteRun
  /\ prev.dir = dir0
  /\ \E f, g \in Files :
       /\ task[f].st = "done"
       /\ calculate_md5(dir0[f].body) \in Md5Set(store0)
       /\ f \notin extracted
       /\ task[g].st = "done"
       /\ g \in extracted
       /\ task[g].res = None

\* Entry f is the one file changed since the previous run, it is a candidate
\* that decodes with a complete GPS block, and its digest is not in the store.
OneNovelFile(f) ==
  /\ dir0[f] # prev.dir[f]
  /\ \A g \in Files \ {f} : dir0[g] = prev.dir[g]
  /\ MatchesFileTypes(dir0[f].ext)
  /\ HasGps(dir0[f].body) /\ GpsComplete(dir0[f].body)
  /\ calculate_md5(dir0[f].body) \notin Md5Set(store0)

\* C4: when exactly one file was modified between two runs, to bytes with
\* valid GPS EXIF whose digest is not in the store, the next run appends
\* exactly one record, with that digest, and keeps every earlier record.
C4_Novelty ==
  \A f \in Files :
    (pc = "done" /\ AfterCompleteRun /\ OneNovelFile(f))
      => /\ Len(photos_data) = Len(store0) + 1
         /\ photos_data[Len(photos_data)].md5 = calculate_md5(dir0[f].body)
         /\ SubSeq(photos_data, 1, Len(store0)) = store0
         /\ Recs(prev.result.out) \subseteq Recs(photos_data)

\* Processing entry f fails: the file is unreadable (no digest), not
\* decodable, or its GPS block makes the parsing raise.
Fails(f) ==
  /\ MatchesFileTypes(dir0[f].ext)
  /\ \/ ~Readable(dir0[f].body)
     \/ ~Decodable(dir0[f].body)
     \/ HasGps(dir0[f].body) /\ ~GpsComplete(dir0[f].body)

\* C5: a file whose processing fails gives no record, and no failure stops the
\* run: no exception reaches the aggregation loop, and when process_photos has
\* returned every record a worker produced is in the store.
C5_FailureIsolation ==
  /\ diedAt # "exception"
  /\ \A f \in Files :
       /\ task[f].st # "failed"
       /\ (Fails(f) /\ task[f].st = "done") =>
            /\ task[f].res = None
            /\ \A i \in 1..Len(Appended) : Appended[i].filename # NameOf(f)
  /\ pc \in {"persist", "writing", "done"} =>
       \A g \in Listed(dir0) :
         /\ task[g].st = "done"
         /\ task[g].res # None => task[g].res[1] \in Recs(photos_data)

\* process_photos has returned with the record of one file aggregated although
\* the decoding of another failed.
C5_Witness ==
  /\ pc = "persist"
  /\ \E f, g \in Files :
       /\ Fails(f)
       /\ f \in extracted
       /\ task[g].res # None
       /\ task[g].res[1] \in Recs(photos_data)


\* The run has not reached the persist step (the open of the metadata file),
\* or the process died before reaching it.
BeforePersist ==
  \/ pc \in {"loaded", "pool", "persist"}
  \/ pc = "dead" /\ diedAt \in {"load", "loaded", "pool", "persist", "exception"}

\* C10: up to the persist step, and after an interruption before it, the
\* metadata file is exactly what it was when the run started: no record of the
\* run is in it, and none of the earlier ones is lost.
C10_InterruptKeepsFile == BeforePersist => metafile = file0

\* A run that had appended records to a loaded, non-empty store was
\* interrupted before the persist step.
C10_Witness ==
  /\ pc = "dead"
  /\ diedAt \in {"pool", "persist"}
  /\ lost > 0
  /\ file0.state = "valid"
  /\ file0.data # <<>>

\* The thumbnail of entry f cannot be written in this run.
ThumbnailFails(f) ==
  /\ MatchesFileTypes(dir0[f].ext)
  /\ HasGps(dir0[f].body) /\ GpsComplete(dir0[f].body)
  /\ ~ThumbnailSaves(dir0[f].body)

\* C11: a file whose thumbnail could not be written is skipped: its task
\* returns no record and none named after it is appended in this run.
C11_ThumbnailFailureSkips ==
  \A f \in Files :
    (ThumbnailFails(f) /\ task[f].st = "done") =>
      /\ task[f].res = None
      /\ \A i \in 1..Len(Appended) : Appended[i].filename # NameOf(f)


\* The EXIF has no GPS block, or one that lacks the latitude or the longitude.
MissingLocation(e) ==
  \/ e.kind = "nogps"
  \/ e.kind = "gps" /\ (e.gps.lat = None \/ e.gps.lon = None)

\* C12: an image with EXIF but no GPS block, or with a GPS block lacking the
\* latitude or the longitude, yields no record, in each of the three parsers;
\* what a parser returns is nothing or a pair of coordinates computed from a
\* latitude and a longitude that are both in the block.
C12_MissingLocationExcluded ==
  parsed.done =>
    /\ MissingLocation(exif_in) => parsed.out = None
    /\ parsed.out # None =>
         /\ Len(parsed.out) = 2
         /\ exif_in.kind = "gps"
         /\ exif_in.gps.lat # None
         /\ exif_in.gps.lon # None

\* map.py's parser was called on a GPS block that has a longitude and no
\* latitude, and returned nothing.
C12_Witness ==
  /\ parsed.done
  /\ parser = "map"
  /\ exif_in.kind = "gps"
  /\ exif_in.gps.lat = None
  /\ exif_in.gps.lon # None
  /\ parsed.out = None

\* C13: the coordinates of every record are in range, -90 <= lat <= 90 and
\* -180 <= lon <= 180 degrees (in arc seconds), whatever triple and reference
\* the parser accepted.
C13_CoordinatesInRange ==
  parsed.out # None =>
    /\ -90 * 3600 <= parsed.out[1] /\ parsed.out[1] <= 90 * 3600
    /\ -180 * 3600 <= parsed.out[2] /\ parsed.out[2] <= 180 * 3600

\* C14: in every parser the latitude is negated exactly when its reference is
\* "S" or the localized word for south, and the longitude exactly when its
\* reference is "W" or the localized word for west.
C14_HemisphereSign ==
  parsed.out # None =>
    /\ parsed.out[1] = IF exif_in.gps.latref \in {"S", "nanwei"}
                       THEN -convert_to_degrees(exif_in.gps.lat)
                       ELSE convert_to_degrees(exif_in.gps.lat)
    /\ parsed.out[2] = IF exif_in.gps.lonref \in {"W", "xijing"}
                       THEN -convert_to_degrees(exif_in.gps.lon)
                       ELSE convert_to_degrees(exif_in.gps.lon)


\* C15: whatever the tag value and its nesting, the normalized value is a
\* number, a string or a sequence or mapping of such, so json.dump encodes it:
\* bytes have become a string and a value of any other type its str().
C15_NormalizationClosed ==
  normalized.done => Serializable(normalized.out)


\* The places <<key, position>> at which record r stands in the groups g.
PlacesOf(g, r) ==
  {kp \in UNION {{<<k, p>> : p \in 1..Len(g[k])} : k \in DOMAIN g} :
     g[kp[1]][kp[2]] = r}

\* C16: the groups that _group_nearby_photos returns are a partition of the
\* record list: no group is empty and every record stands at exactly one
\* place of exactly one group.
C16_Partition ==
  \A c \in 1..Len(grouped) :
    /\ \A k \in DOMAIN grouped[c] : grouped[c][k] # <<>>
    /\ \A r \in 1..Len(plot_photos) :
         Cardinality(PlacesOf(grouped[c], r)) = 1

\* The clusterer has returned several groups for a list of which a record
\* near two seeds went to one group only.
C16_Witness ==
  /\ Len(grouped) >= 1
  /\ plot_photos = <<0, 80, 40, 200>>
  /\ max_distance = DefaultMaxDistance
  /\ Cardinality(DOMAIN grouped[1]) = 3


\* The seed of the group under key k, and the records that are no seed.
SeedOf(g, k) == g[k][1]
Seeds(g) == {SeedOf(g, k) : k \in DOMAIN g}
MembersOf(g, k) == {g[k][p] : p \in 1..Len(g[k])}

\* Within max_distance of the seed of group k, and of no seed met before it.
EarliestSeedInRange(g, k, r) ==
  /\ Distance(plot_photos[SeedOf(g, k)], plot_photos[r]) <= max_distance
  /\ \A k2 \in DOMAIN g :
       k2 < k => Distance(plot_photos[SeedOf(g, k2)], plot_photos[r]) > max_distance

\* C17: a record that is no seed belongs to the group of seed R exactly when
\* R is the first seed met whose distance to it is at most max_distance,
\* whatever its distance to other members; and for A, B 40 m from A and C
\* 80 m from A, in this order with threshold 50, the groups are {A, B} and
\* then {C}.
C17_SeedOnlyMembership ==
  \A c \in 1..Len(grouped) :
    /\ \A r \in (1..Len(plot_photos)) \ Seeds(grouped[c]) :
         \A k \in DOMAIN grouped[c] :
           r \in MembersOf(grouped[c], k) <=> EarliestSeedInRange(grouped[c], k, r)
    /\ (plot_photos = <<0, 40, 80>> /\ max_distance = 50) =>
         grouped[c] = (0 :> <<1, 2>> @@ 1 :> <<3>>)

\* The clusterer has been called on A, B, C at 0, 40 and 80 m with threshold
\* 50, and C, 40 m from the member B, is alone in the second group.
C17_Witness ==
  /\ Len(grouped) >= 1
  /\ plot_photos = <<0, 40, 80>>
  /\ max_distance = 50
  /\ grouped[1][1] = <<3>>

\* C18 (as claimed): the chain of six records, each 40 m from the next, forms
\* one cluster seeded by the first record under the default threshold.
C18_ChainOneCluster ==
  \A c \in 1..Len(grouped) :
    (plot_photos = Chain /\ max_distance = DefaultMaxDistance) =>
      /\ DOMAIN grouped[c] = {0}
      /\ SeedOf(grouped[c], 0) = 1
      /\ MembersOf(grouped[c], 0) = 1..Len(Chain)

\* C18 (amended): the cluster seeded by the first record of a list holds the
\* records within max_distance of that record and no others, so the chain
\* forms three clusters under the default threshold, seeded by its first,
\* third and fifth record, each holding its seed and the next record.
C18_ChainBySeeds ==
  \A c \in 1..Len(grouped) :
    /\ plot_photos # <<>> =>
         /\ SeedOf(grouped[c], 0) = 1
         /\ MembersOf(grouped[c], 0) =
              {r \in 1..Len(plot_photos) :
                 Distance(plot_photos[1], plot_photos[r]) <= max_distance}
    /\ (plot_photos = Chain /\ max_distance = DefaultMaxDistance) =>
         grouped[c] = (0 :> <<1, 2>> @@ 1 :> <<3, 4>> @@ 2 :> <<5, 6>>)

\* The clusterer has been called on the chain with the default threshold.
C18_Witness ==
  /\ Len(grouped) >= 1
  /\ plot_photos = Chain
  /\ max_distance = DefaultMaxDistance
  /\ Cardinality(DOMAIN grouped[1]) = 3

\* Records r1 and r2 are in the same group of g.
SameGroup(g, r1, r2) ==
  \E k \in DOMAIN g : r1 \in MembersOf(g, k) /\ r2 \in MembersOf(g, k)

\* C19 (as claimed): any two records whose distance is exactly max_distance
\* are in the same cluster; two records further apart than max_distance, with
\* no other records present, are in two clusters.
C19_ExactDistanceSameCluster ==
  \A c \in 1..Len(grouped) :
    /\ \A r1, r2 \in 1..Len(plot_photos) :
         Distance(plot_photos[r1], plot_photos[r2]) = max_distance =>
           SameGroup(grouped[c], r1, r2)
    /\ ( /\ Len(plot_photos) = 2
         /\ Distance(plot_photos[1], plot_photos[2]) > max_distance ) =>
           ~SameGroup(grouped[c], 1, 2)

\* C19 (amended): with no other records present, two records whose distance
\* is exactly max_distance form one cluster, and two records further apart
\* than max_distance form two.
C19_BoundaryOfTwo ==
  \A c \in 1..Len(grouped) :
    Len(plot_photos) = 2 =>
      /\ Distance(plot_photos[1], plot_photos[2]) = max_distance =>
           grouped[c] = (0 :> <<1, 2>>)
      /\ Distance(plot_photos[1], plot_photos[2]) > max_distance =>
           grouped[c] = (0 :> <<1>> @@ 1 :> <<2>>)

\* The clusterer has put two records exactly max_distance apart, alone in the
\* list, in one group.
C19_Witness ==
  /\ Len(grouped) >= 1
  /\ plot_photos = <<40, 90>>
  /\ max_distance = 50
  /\ grouped[1] = (0 :> <<1, 2>>)

\* C20: the groups are keyed 0, 1, 2, ... in the order their seeds were met
\* (the seeds' places in the list increase with the key), and two calls on
\* the same list return the same groups under the same keys.
C20_SeedOrder ==
  /\ \A c \in 1..Len(grouped) :
       /\ DOMAIN grouped[c] = 0..(Cardinality(DOMAIN grouped[c]) - 1)
       /\ \A k1, k2 \in DOMAIN grouped[c] :
            k1 < k2 => SeedOf(grouped[c], k1) < SeedOf(grouped[c], k2)
  /\ \A c1, c2 \in 1..Len(grouped) : grouped[c1] = grouped[c2]

\* The clusterer has been called twice on a list that gives three groups, the
\* second of them seeded by a record that follows a member of the first.
C20_Witness ==
  /\ Len(grouped) = 2
  /\ plot_photos = <<0, 40, 80, 200>>
  /\ Cardinality(DOMAIN grouped[2]) = 3


\* The script is running or has run to its end (its memory is there).
InMemory == pc \in Alive \cup {"done"}

\* The record's source file is no longer what the record says: it has been
\* deleted or modified (another digest) or renamed (another name).
Stale(rec) ==
  \/ rec.md5 # calculate_md5(dir0[rec.filename[1]].body)
  \/ dir0[rec.filename[1]].body = Deleted
  \/ rec.filename # NameOf(rec.filename[1])

\* C21: during a run the records loaded at the start stay an unchanged prefix
\* of photos_data, in the same order, also those whose source file has been
\* deleted, renamed or modified; process_photos returns with that prefix.
C21_AppendOnly ==
  /\ InMemory =>
       /\ Len(store0) <= Len(photos_data)
       /\ SubSeq(photos_data, 1, Len(store0)) = store0
  /\ result.reached =>
       /\ Len(store0) <= Len(result.out)
       /\ SubSeq(result.out, 1, Len(store0)) = store0

\* A run has ended that loaded the record of a file modified since, kept it
\* and appended the record of the file's new bytes.
C21_Witness ==
  /\ pc = "done"
  /\ Len(photos_data) > Len(store0)
  /\ \E i \in 1..Len(store0) :
       /\ Stale(store0[i])
       /\ photos_data[i] = store0[i]
       /\ photos_data[Len(photos_data)].filename = store0[i].filename


\* C22: after load_existing_metadata and after every step of the aggregation
\* loop, existing_md5 holds exactly the md5 values of the records of
\* photos_data.
C22_HashIndexConsistent ==
  InMemory =>
    /\ \A i \in 1..Len(photos_data) : photos_data[i].md5 \in existing_md5
    /\ \A h \in existing_md5 :
         \E i \in 1..Len(photos_data) : photos_data[i].md5 = h

\* The aggregation loop has appended a record to a store that was loaded
\* with records in it.
C22_Witness ==
  /\ pc = "pool"
  /\ store0 # <<>>
  /\ Len(photos_data) > Len(store0)
  /\ Cardinality(existing_md5) >= 2


\* The records no group before key k holds: those unprocessed when the seed
\* of group k was met.
UnprocessedAt(g, k) ==
  (1..Len(plot_photos)) \ UNION {MembersOf(g, k2) : k2 \in {j \in DOMAIN g : j < k}}

\* C23: on the map every cluster's first member is its seed (the first
\* record no earlier cluster had taken), its marker stands at the seed's
\* coordinates, its weight is the number of its members, and the weight is 1
\* exactly when no other record unprocessed at seeding time is within
\* max_distance of the seed; exactly the clusters of weight 1 get the red
\* marker.
C23_RepresentativeAndWeight ==
  (rendered.done /\ rendered.drawn) =>
    /\ Len(rendered.markers) = Cardinality(DOMAIN rendered.groups)
    /\ Len(rendered.heat_data) = Cardinality(DOMAIN rendered.groups)
    /\ \A k \in DOMAIN rendered.groups :
         LET g == rendered.groups
             seed == g[k][1]
         IN /\ seed \in UnprocessedAt(g, k)
            /\ \A r \in UnprocessedAt(g, k) : seed <= r
            /\ rendered.markers[k + 1].location = plot_photos[seed]
            /\ rendered.heat_data[k + 1][1] = plot_photos[seed]
            /\ rendered.heat_data[k + 1][2] = Cardinality(MembersOf(g, k))
            /\ rendered.heat_data[k + 1][2] = 1 <=>
                 ~\E r \in UnprocessedAt(g, k) \ {seed} :
                    Distance(plot_photos[seed], plot_photos[r]) <= DefaultMaxDistance
            /\ rendered.markers[k + 1].color = "red" <=>
                 rendered.heat_data[k + 1][2] = 1

\* The map has been drawn with a cluster of several records at places other
\* than its seed's, and a singleton.
C23_Witness ==
  /\ rendered.done
  /\ plot_photos = <<40, 0, 200, 80>>
  /\ rendered.heat_data = <<<<40, 3>>, <<200, 1>>>>
  /\ rendered.markers[1].color = "blue"
  /\ rendered.markers[2].color = "red"


\* C24: in what _group_nearby_photos returns, the seeds of two different
\* clusters are more than max_distance apart.
C24_SeedSeparation ==
  \A c \in 1..Len(grouped) :
    \A k1, k2 \in DOMAIN grouped[c] :
      k1 # k2 =>
        Distance(plot_photos[SeedOf(grouped[c], k1)],
                 plot_photos[SeedOf(grouped[c], k2)]) > max_distance

\* The clusterer has returned three clusters, the second seeded by a record
\* 11 m from a member of the first and 51 m from its seed.
C24_Witness ==
  /\ Len(grouped) >= 1
  /\ plot_photos = <<0, 51, 40, 120>>
  /\ max_distance = DefaultMaxDistance
  /\ grouped[1] = (0 :> <<1, 3>> @@ 1 :> <<2>> @@ 2 :> <<4>>)


\* C25: when the metadata file is there and cannot be parsed, the load
\* leaves the record list and the hash set empty and the run goes on, and
\* after the persist step the file holds the records extracted in this run
\* and nothing else.
C25_CorruptStoreRecovery ==
  file0.state = "partial" =>
    /\ diedAt # "load"
    /\ InMemory => store0 = <<>>
    /\ pc = "loaded" => photos_data = <<>> /\ existing_md5 = {}
    /\ pc = "done" => metafile = [state |-> "valid", data |-> photos_data]


\* The entries whose task has returned a record.
Producers == {f \in Files : task[f].st = "done" /\ task[f].res # None}

\* What a run has consumed and appended so far: a record for each consumed
\* entry that produced one, and no other.
ConsumedOnce ==
  InMemory =>
    /\ consumed \subseteq Listed(dir0)
    /\ Len(Appended) = Cardinality(consumed \cap Producers)
    /\ \A f \in consumed \cap Producers :
         \E i \in 1..Len(Appended) : Appended[i] = task[f].res[1]

\* process_photos has returned: every submitted entry's future was consumed.
Returned == pc \in {"persist", "writing", "done"} => consumed = Listed(dir0)

\* C26: when every per-file task ends, process_photos, once it is called,
\* ends too (unless the process is interrupted), with every entry's result
\* consumed once: the run appends one record for each entry
\* that produced one, and none is missing at the persist step.
C26_RunCompletes ==
  /\ [](ConsumedOnce /\ Returned)
  /\ (pc \in {"loaded", "pool"})
       ~> (pc = "persist" \/ (pc = "dead" /\ diedAt \in {"loaded", "pool"}))

\* process_photos has returned after consuming the results of two entries,
\* one of which gave a record.
C26_Witness ==
  /\ pc = "persist"
  /\ Cardinality(consumed) = 2
  /\ Len(Appended) = 1

====
